---- MODULE Spec2Model ----
(***************************************************************************)
(* Annalysis Pro: the analysis cache (services/cacheService.ts), the       *)
(* content hasher, the frame sampler (services/videoProcessing.ts) and the *)
(* orchestrator analyzeVideo (App.tsx), as one state machine.              *)
(*                                                                         *)
(* Time is counted in days since the start of the behaviour; sizes of      *)
(* stored text are counted in abstract storage units.                      *)
(***************************************************************************)
EXTENDS Integers, Sequences, FiniteSets, TLC

(***************************************************************************)
(* Bounds of the model                                                     *)
(***************************************************************************)
\* number of analyzeVideo calls that are followed at one time: a call is
\* followed until it and its detached cache callback are over
MaxRequests == 1
\* the largest amount of storage that can be left to the cache key
QuotaMax == 2
\* the last instant of the clock
MaxTime == 38
\* the frame count the sampler is configured with in the model
NumFrames == 1
\* the depth of nested saveCached calls at which the call stack overflows
StackDepth == 4
\* the largest frame count the sampler is called with on its own
MaxCaptures == 3
\* the longest side a frame may have, FRAME_EXTRACTION_CONFIG.maxSize, scaled
\* down so that every source size around it can be tried
MaxSize == 4
\* the longest video whose timestamps are computed, in tenths of a second
MaxTenths == 6

\* the instants at which the clock is read while the cache is exercised:
\* they make ages of exactly 7, 8, 30 and 31 days happen (38 - 31, 8 - 0,
\* 38 - 8 and 31 - 0)
Times == {t \in 0..MaxTime : t \in {0, 8, 31, 38, 39}}
\* the instants at which the clock is read while the App runs
AppTimes == {t \in Times : t \in {0, 8, 38, 39}}

(***************************************************************************)
(* Program constants                                                       *)
(***************************************************************************)
CACHE_DURATION_DAYS == 30
PRESSURE_KEEP_DAYS == 7
\* 24 * 60 * 60 * 1000 ms, in the model's unit of time (one day)
DayMs == 1
\* the margin kept before the end of the video, 0.1 s, in tenths of a second
EndMargin == 1

(***************************************************************************)
(* Values                                                                  *)
(***************************************************************************)
\* the JavaScript value undefined, where a string is expected
Undefined == "<undefined>"
\* the JavaScript value null, where an analysis object is expected
Null == [kind |-> "null"]

Fields ==
  {"summary", "objects", "people", "actions", "textContent",
   "audioContext", "technicalAspects", "metadata"}

\* a StructuredVideoAnalysis with the given summary
Analysis(summary, objects) ==
  [kind |-> "object", summary |-> summary, objects |-> objects,
   people |-> "[]", actions |-> "[]", textContent |-> "[]",
   audioContext |-> "{}", technicalAspects |-> "{}", metadata |-> "{}"]

ShortText == "a cat"
LongText == "a long description of a cat"
RawText == "not json"

RecA == Analysis(ShortText, "[cat]")
RecB == Analysis(LongText, "[cat,mat]")

\* the interface StructuredVideoAnalysis: an object with eight string fields
IsStructuredVideoAnalysis(a) ==
  /\ a.kind = "object"
  /\ DOMAIN a = Fields \cup {"kind"}
  /\ \A k \in Fields : a[k] # Undefined

\* reading a property of an object: undefined when the key is missing
Prop(a, k) == IF k \in DOMAIN a THEN a[k] ELSE Undefined

(***************************************************************************)
(* Files and the content hasher                                            *)
(***************************************************************************)
Files ==
  { [name |-> "a", size |-> 1, lastModified |-> 1],
    [name |-> "b", size |-> 1, lastModified |-> 1],
    [name |-> "a", size |-> 1, lastModified |-> 2] }

\* the files the user picks while the App runs
AppFiles == {f \in Files : f.lastModified = 1}

\* char codes of the file names and of one-digit numbers
CharCodes(name) == IF name = "a" THEN <<97>> ELSE <<98>>
DigitCodes(n) == <<48 + n>>

\* `${file.name}-${file.size}-${file.lastModified}`
HashData(file) ==
  CharCodes(file.name) \o <<45>> \o DigitCodes(file.size) \o <<45>>
    \o DigitCodes(file.lastModified)

\* A 32-bit integer is kept as its two 16-bit halves <<hi, lo>>.
\* One round of the loop: hash = ((hash << 5) - hash) + char; hash & hash,
\* which is hash * 31 + char modulo 2^32
HashStep(h, char) ==
  LET lo == h[2] * 31 + char
      hi == h[1] * 31 + (lo \div 65536)
  IN  <<hi % 65536, lo % 65536>>

RECURSIVE FallbackLoop(_, _, _)
FallbackLoop(data, i, hash) ==
  IF i > Len(data) THEN hash
  ELSE FallbackLoop(data, i + 1, HashStep(hash, data[i]))

\* Math.abs of the signed value of the halves, again as halves
Abs32(h) ==
  IF h[1] < 32768 THEN h
  ELSE <<(65535 - h[1] + (IF h[2] = 0 THEN 1 ELSE 0)) % 65536, (65536 - h[2]) % 65536>>

RECURSIVE ToHex(_)
ToHex(n) == IF n < 16 THEN <<n>> ELSE ToHex(n \div 16) \o <<n % 16>>

\* the low half in exactly four digits
ToHex4(n) == <<n \div 4096, (n \div 256) % 16, (n \div 16) % 16, n % 16>>

\* Number.prototype.toString(16) of a non-negative 32-bit magnitude
ToString16(h) == IF h[1] = 0 THEN ToHex(h[2]) ELSE ToHex(h[1]) \o ToHex4(h[2])

\* the fallback branch: a 32-bit string hash, printed in base 16
FallbackHash(data) ==
  [chars |-> 8, hex |-> ToString16(Abs32(FallbackLoop(data, 1, <<0, 0>>)))]

\* the SubtleCrypto branch: SHA-256 is taken to be free of collisions, its
\* 64-character digest is stood for by the text that was hashed
Sha256Hash(data) == [chars |-> 64, hex |-> data]

generateVideoHash(file, subtle) ==
  IF subtle THEN Sha256Hash(HashData(file)) ELSE FallbackHash(HashData(file))

(***************************************************************************)
(* Dates and JSON                                                          *)
(***************************************************************************)
\* Date.prototype.toISOString and new Date(string)
ToISOString(t) == <<"ISO-8601", t>>
DateParse(s) == s[2]

\* a variant of StringifyAnalysis that loses the member `objects`
StringifyAnalysisLossy(a) ==
  IF a.kind = "null" THEN Null
  ELSE [k \in {x \in DOMAIN a : a[x] # Undefined /\ x # "objects"} |-> a[k]]

\* JSON.stringify of an analysis value: members whose value is undefined
\* are left out, null stays null
StringifyAnalysis(a) ==
  IF a.kind = "null" THEN Null
  ELSE [k \in {x \in DOMAIN a : a[x] # Undefined} |-> a[k]]

StringifyEntry(e) == [e EXCEPT !.analysis = StringifyAnalysis(e.analysis)]

\* JSON.stringify of the array of entries, as stored text
JsonStringify(cached) ==
  [kind |-> "json", value |-> [i \in 1..Len(cached) |-> StringifyEntry(cached[i])]]

\* the length of a string, in storage units
TextSize(s) == IF s = LongText THEN 1 ELSE 0

EntrySize(e) == 1 + TextSize(Prop(e.analysis, "summary"))

RECURSIVE SumSizes(_)
SumSizes(s) == IF s = <<>> THEN 0 ELSE EntrySize(Head(s)) + SumSizes(Tail(s))

\* the length of a stored item
ItemSize(item) ==
  CASE item.kind = "absent" -> 0
    [] item.kind = "json" -> SumSizes(item.value)
    [] OTHER -> 1

Absent == [kind |-> "absent"]
\* stored text that JSON.parse rejects
Garbage == [kind |-> "garbage"]
\* stored text that parses to a value that is not an array, such as {}
NonArray == [kind |-> "nonarray"]

(***************************************************************************)
(* localStorage, as seen by the cache: ls.item is the text stored under    *)
(* CACHE_KEY, ls.avail the room the other keys of the origin leave to it,  *)
(* ls.denied whether the browser refuses access to the storage, ls.freed   *)
(* the room that another tab of the origin gives back between the failed   *)
(* setItem of a saveCached call and its retry (0 but during such a call)   *)
(***************************************************************************)
\* localStorage.setItem(CACHE_KEY, text): "ok", "quota" (QuotaExceededError)
\* or "error" (any other exception)
SetItem(ls, text) ==
  IF ls.denied THEN "error"
  ELSE IF ItemSize(text) > ls.avail THEN "quota"
  ELSE "ok"

\* a variant of getAllCached without its catch block: the error of JSON.parse
\* reaches the caller
getAllCachedNoCatch(ls) ==
  IF ls.denied THEN [isArray |-> FALSE, list |-> <<>>]
  ELSE CASE ls.item.kind = "absent" -> [isArray |-> TRUE, list |-> <<>>]
         [] ls.item.kind = "garbage" -> [isArray |-> FALSE, list |-> <<>>]
         [] ls.item.kind = "nonarray" -> [isArray |-> FALSE, list |-> <<>>]
         [] OTHER -> [isArray |-> TRUE, list |-> ls.item.value]

\* getAllCached: the parsed array, [] when the item is missing, unreadable
\* or unparseable; isArray is FALSE when the parsed value is no array
getAllCached(ls) ==
  IF ls.denied THEN [isArray |-> TRUE, list |-> <<>>]
  ELSE CASE ls.item.kind = "absent" -> [isArray |-> TRUE, list |-> <<>>]
         [] ls.item.kind = "garbage" -> [isArray |-> TRUE, list |-> <<>>]
         [] ls.item.kind = "nonarray" -> [isArray |-> FALSE, list |-> <<>>]
         [] OTHER -> [isArray |-> TRUE, list |-> ls.item.value]

\* Array.prototype.filter
Filter(s, Keep(_)) == SelectSeq(s, Keep)

\* a variant of Recent that also drops the entries cached exactly at the
\* cutoff
RecentStrict(cached, daysToKeep, now) ==
  LET cutoffDate == now - daysToKeep * DayMs
      Keep(entry) == DateParse(entry.cachedAt) > cutoffDate
  IN  Filter(cached, Keep)

\* the entries clearOldCache keeps
Recent(cached, daysToKeep, now) ==
  LET cutoffDate == now - daysToKeep * DayMs
      Keep(entry) == DateParse(entry.cachedAt) >= cutoffDate
  IN  Filter(cached, Keep)

\* what an operation reports of saveCached when it did not call it
NotSaved(item, threw) ==
  [item |-> item, called |-> FALSE, full |-> FALSE, writes |-> 0, retries |-> 0,
   saved |-> FALSE, threw |-> threw, overflow |-> FALSE]

RECURSIVE saveCached(_, _, _, _)
RECURSIVE clearOldCache(_, _, _, _)

\* a variant of saveCached whose retry is a call of saveCached itself
saveCachedRetryAgain(ls, cached, now, depth) ==
  LET text == JsonStringify(cached)
      first == SetItem(ls, text)
  IN  IF depth > StackDepth
        THEN [item |-> ls.item, called |-> TRUE, full |-> FALSE, writes |-> 0,
              retries |-> 0, saved |-> FALSE, threw |-> TRUE, overflow |-> TRUE]
      ELSE IF first = "ok"
        THEN [item |-> text, called |-> TRUE, full |-> FALSE, writes |-> 1,
              retries |-> 0, saved |-> TRUE, threw |-> FALSE, overflow |-> FALSE]
      ELSE IF first = "quota"
        THEN LET c == clearOldCache(ls, PRESSURE_KEEP_DAYS, now, depth + 1)
                 again == saveCached([ls EXCEPT !.item = c.item], cached, now, depth + 1)
             IN  IF c.threw
                   THEN [item |-> c.item, called |-> TRUE, full |-> TRUE,
                         writes |-> 1 + c.writes, retries |-> 0,
                         saved |-> FALSE, threw |-> TRUE, overflow |-> c.overflow]
                 ELSE [item |-> again.item, called |-> TRUE, full |-> TRUE,
                       writes |-> 1 + c.writes + again.writes,
                       retries |-> 1 + again.retries, saved |-> again.saved,
                       threw |-> again.threw, overflow |-> again.overflow]
      ELSE [item |-> ls.item, called |-> TRUE, full |-> FALSE, writes |-> 1,
            retries |-> 0, saved |-> FALSE, threw |-> FALSE, overflow |-> FALSE]

\* saveCached(cached), called at stack depth `depth`.  The result holds the
\* item stored afterwards, the number of setItem calls made, whether the
\* call threw (a TypeError of a nested read) and whether the nesting of
\* saveCached and clearOldCache ran off the call stack.
saveCached(ls, cached, now, depth) ==
  LET text == JsonStringify(cached)
      first == SetItem(ls, text)
  IN  IF depth > StackDepth
        THEN [item |-> ls.item, called |-> TRUE, full |-> FALSE, writes |-> 0,
              retries |-> 0, saved |-> FALSE, threw |-> TRUE, overflow |-> TRUE]
      ELSE IF first = "ok"
        THEN [item |-> text, called |-> TRUE, full |-> FALSE, writes |-> 1,
              retries |-> 0, saved |-> TRUE, threw |-> FALSE, overflow |-> FALSE]
      ELSE IF first = "quota"
        THEN LET c == clearOldCache(ls, PRESSURE_KEEP_DAYS, now, depth + 1)
                 ls2 == [ls EXCEPT !.item = c.item, !.avail = @ + ls.freed]
                 second == SetItem(ls2, text)
             IN  IF c.threw
                   THEN [item |-> c.item, called |-> TRUE, full |-> TRUE,
                         writes |-> 1 + c.writes, retries |-> 0,
                         saved |-> FALSE, threw |-> TRUE, overflow |-> c.overflow]
                 ELSE [item |-> IF second = "ok" THEN text ELSE c.item,
                       called |-> TRUE, full |-> TRUE,
                       writes |-> 1 + c.writes + 1, retries |-> 1,
                       saved |-> (second = "ok"),
                       threw |-> FALSE, overflow |-> FALSE]
      ELSE [item |-> ls.item, called |-> TRUE, full |-> FALSE, writes |-> 1,
            retries |-> 0, saved |-> FALSE, threw |-> FALSE, overflow |-> FALSE]

\* clearOldCache(daysToKeep), called at stack depth `depth`
clearOldCache(ls, daysToKeep, now, depth) ==
  LET all == getAllCached(ls)
      recent == Recent(all.list, daysToKeep, now)
      removedCount == Len(all.list) - Len(recent)
  IN  IF ~all.isArray
        THEN [item |-> ls.item, count |-> 0, writes |-> 0,
              threw |-> TRUE, overflow |-> FALSE, save |-> NotSaved(ls.item, TRUE)]
      ELSE IF removedCount > 0
        THEN LET s == saveCached(ls, recent, now, depth + 1)
             IN  [item |-> s.item, count |-> removedCount, writes |-> s.writes,
                  threw |-> s.threw, overflow |-> s.overflow, save |-> s]
      ELSE [item |-> ls.item, count |-> 0, writes |-> 0,
            threw |-> FALSE, overflow |-> FALSE, save |-> NotSaved(ls.item, FALSE)]

\* Array.prototype.find on the videoHash: the entry, or Null
RECURSIVE FindHash(_, _)
FindHash(cached, hash) ==
  IF cached = <<>> THEN Null
  ELSE IF Head(cached).videoHash = hash THEN Head(cached)
  ELSE FindHash(Tail(cached), hash)

WithoutHash(cached, hash) ==
  LET Keep(c) == c.videoHash # hash
  IN  Filter(cached, Keep)

\* a variant of getCachedAnalysis that does not look at expiresAt
getCachedAnalysisNoExpiry(ls, hash, now) ==
  LET all == getAllCached(ls)
      entry == FindHash(all.list, hash)
  IN  IF ~all.isArray
        THEN [item |-> ls.item, result |-> Null, threw |-> TRUE,
              save |-> NotSaved(ls.item, TRUE)]
      ELSE IF entry = Null
        THEN [item |-> ls.item, result |-> Null, threw |-> FALSE,
              save |-> NotSaved(ls.item, FALSE)]
      ELSE [item |-> ls.item, result |-> entry.analysis, threw |-> FALSE,
            save |-> NotSaved(ls.item, FALSE)]

\* a variant of getCachedAnalysis that reports an expired entry as absent
\* but leaves it in the store
getCachedAnalysisNoEvict(ls, hash, now) ==
  LET all == getAllCached(ls)
      entry == FindHash(all.list, hash)
  IN  IF ~all.isArray
        THEN [item |-> ls.item, result |-> Null, threw |-> TRUE,
              save |-> NotSaved(ls.item, TRUE)]
      ELSE IF entry = Null \/ now > DateParse(entry.expiresAt)
        THEN [item |-> ls.item, result |-> Null, threw |-> FALSE,
              save |-> NotSaved(ls.item, FALSE)]
      ELSE [item |-> ls.item, result |-> entry.analysis, threw |-> FALSE,
            save |-> NotSaved(ls.item, FALSE)]

\* getCachedAnalysis(file), from the point where the hash is known
getCachedAnalysis(ls, hash, now) ==
  LET all == getAllCached(ls)
      entry == FindHash(all.list, hash)
  IN  IF ~all.isArray
        THEN [item |-> ls.item, result |-> Null, threw |-> TRUE,
              save |-> NotSaved(ls.item, TRUE)]
      ELSE IF entry = Null
        THEN [item |-> ls.item, result |-> Null, threw |-> FALSE,
              save |-> NotSaved(ls.item, FALSE)]
      ELSE IF now > DateParse(entry.expiresAt)
        THEN LET s == saveCached(ls, WithoutHash(all.list, hash), now, 1)
             IN  [item |-> s.item, result |-> Null, threw |-> s.threw, save |-> s]
      ELSE [item |-> ls.item, result |-> entry.analysis, threw |-> FALSE,
            save |-> NotSaved(ls.item, FALSE)]

\* a variant of NewEntry that lets the entry live for the pressure window
NewEntryShortLife(file, hash, analysis, videoDuration, now) ==
  [videoHash |-> hash,
   videoFileName |-> file.name,
   videoSize |-> file.size,
   videoDuration |-> videoDuration,
   analysis |-> analysis,
   cachedAt |-> ToISOString(now),
   expiresAt |-> ToISOString(now + PRESSURE_KEEP_DAYS * DayMs)]

\* the entry cacheAnalysis builds
NewEntry(file, hash, analysis, videoDuration, now) ==
  [videoHash |-> hash,
   videoFileName |-> file.name,
   videoSize |-> file.size,
   videoDuration |-> videoDuration,
   analysis |-> analysis,
   cachedAt |-> ToISOString(now),
   expiresAt |-> ToISOString(now + CACHE_DURATION_DAYS * DayMs)]

\* a variant of cacheAnalysis that stores its own entry alone
cacheAnalysisOverwrite(ls, file, hash, analysis, videoDuration, now) ==
  LET all == getAllCached(ls)
      newEntry == NewEntry(file, hash, analysis, videoDuration, now)
  IN  IF ~all.isArray
        THEN [item |-> ls.item, threw |-> TRUE, save |-> NotSaved(ls.item, TRUE)]
      ELSE LET s == saveCached(ls, <<newEntry>>, now, 1)
           IN  [item |-> s.item, threw |-> s.threw, save |-> s]

\* a variant of cacheAnalysis that appends without removing the old entry
cacheAnalysisAppend(ls, file, hash, analysis, videoDuration, now) ==
  LET all == getAllCached(ls)
      newEntry == NewEntry(file, hash, analysis, videoDuration, now)
  IN  IF ~all.isArray
        THEN [item |-> ls.item, threw |-> TRUE, save |-> NotSaved(ls.item, TRUE)]
      ELSE LET s == saveCached(ls, Append(all.list, newEntry), now, 1)
           IN  [item |-> s.item, threw |-> s.threw, save |-> s]

\* cacheAnalysis(file, analysis, videoDuration), once the hash is known
cacheAnalysis(ls, file, hash, analysis, videoDuration, now) ==
  LET all == getAllCached(ls)
      filtered == WithoutHash(all.list, hash)
      newEntry == NewEntry(file, hash, analysis, videoDuration, now)
  IN  IF ~all.isArray
        THEN [item |-> ls.item, threw |-> TRUE, save |-> NotSaved(ls.item, TRUE)]
      ELSE LET s == saveCached(ls, Append(filtered, newEntry), now, 1)
           IN  [item |-> s.item, threw |-> s.threw, save |-> s]

\* clearAllCache: removeItem, whose exceptions are caught
clearAllCache(ls) == IF ls.denied THEN ls.item ELSE Absent

\* a variant of Valid that also drops the entries that expire right now
ValidStrict(cached, now) ==
  LET Keep(entry) == now < DateParse(entry.expiresAt)
  IN  Filter(cached, Keep)

\* the entries clearExpiredCache keeps
Valid(cached, now) ==
  LET Keep(entry) == now <= DateParse(entry.expiresAt)
  IN  Filter(cached, Keep)

clearExpiredCache(ls, now) ==
  LET all == getAllCached(ls)
      valid == Valid(all.list, now)
      removedCount == Len(all.list) - Len(valid)
  IN  IF ~all.isArray
        THEN [item |-> ls.item, count |-> 0, threw |-> TRUE,
              save |-> NotSaved(ls.item, TRUE)]
      ELSE IF removedCount > 0
        THEN LET s == saveCached(ls, valid, now, 1)
             IN  [item |-> s.item, count |-> removedCount, threw |-> s.threw,
                  save |-> s]
      ELSE [item |-> ls.item, count |-> 0, threw |-> FALSE,
            save |-> NotSaved(ls.item, FALSE)]

\* a variant of removeCachedVideo that reports the removal without saving
removeCachedVideoNoSave(ls, fileName, fileSize, now) ==
  LET all == getAllCached(ls)
      Keep(c) == ~(c.videoFileName = fileName /\ c.videoSize = fileSize)
      filtered == Filter(all.list, Keep)
  IN  IF ~all.isArray
        THEN [item |-> ls.item, result |-> FALSE, threw |-> TRUE,
              save |-> NotSaved(ls.item, TRUE)]
      ELSE [item |-> ls.item, result |-> Len(filtered) < Len(all.list),
            threw |-> FALSE, save |-> NotSaved(ls.item, FALSE)]

removeCachedVideo(ls, fileName, fileSize, now) ==
  LET all == getAllCached(ls)
      Keep(c) == ~(c.videoFileName = fileName /\ c.videoSize = fileSize)
      filtered == Filter(all.list, Keep)
  IN  IF ~all.isArray
        THEN [item |-> ls.item, result |-> FALSE, threw |-> TRUE,
              save |-> NotSaved(ls.item, TRUE)]
      ELSE IF Len(filtered) < Len(all.list)
        THEN LET s == saveCached(ls, filtered, now, 1)
             IN  [item |-> s.item, result |-> TRUE, threw |-> s.threw, save |-> s]
      ELSE [item |-> ls.item, result |-> FALSE, threw |-> FALSE,
            save |-> NotSaved(ls.item, FALSE)]

\* getCacheStats: the sizes and counts it reports
getCacheStats(ls, now) ==
  LET all == getAllCached(ls)
      soonDate == now + 7 * DayMs
      Expiring(entry) ==
        DateParse(entry.expiresAt) <= soonDate /\ DateParse(entry.expiresAt) > now
  IN  IF ~all.isArray
        THEN [totalEntries |-> 0, totalSize |-> 0, expiringCount |-> 0, threw |-> TRUE]
      ELSE [totalEntries |-> Len(all.list),
            totalSize |-> IF ls.denied THEN 0 ELSE ItemSize(ls.item),
            expiringCount |-> Len(Filter(all.list, Expiring)),
            threw |-> FALSE]

\* getCachedVideos: the listing, one row per entry
getCachedVideos(ls) ==
  LET all == getAllCached(ls)
  IN  IF ~all.isArray THEN [rows |-> <<>>, threw |-> TRUE]
      ELSE [rows |-> [i \in 1..Len(all.list) |->
                        [videoFileName |-> all.list[i].videoFileName,
                         videoSize |-> all.list[i].videoSize,
                         videoDuration |-> all.list[i].videoDuration,
                         cachedAt |-> all.list[i].cachedAt,
                         expiresAt |-> all.list[i].expiresAt]],
            threw |-> FALSE]

(***************************************************************************)
(* The frame sampler, as the function from what the video element does to  *)
(* the way the promise of extractFrames settles                            *)
(***************************************************************************)
\* the variant whose buckets are out of order
getAdaptiveFrameCountUnordered(duration) ==
  IF duration <= 30 THEN 5
  ELSE IF duration <= 60 THEN 10
  ELSE IF duration <= 180 THEN 8
  ELSE IF duration <= 600 THEN 12
  ELSE 15

getAdaptiveFrameCount(duration) ==
  IF duration <= 30 THEN 5
  ELSE IF duration <= 60 THEN 8
  ELSE IF duration <= 180 THEN 10
  ELSE IF duration <= 600 THEN 12
  ELSE 15

\* config.numFrames || getAdaptiveFrameCount(duration): a numFrames of 0 is
\* falsy and leaves the choice to the duration
adaptiveFrameCount(numFrames, duration) ==
  IF numFrames # 0 THEN numFrames ELSE getAdaptiveFrameCount(duration)

\* durations in seconds on both sides of every breakpoint
SampleSecs == {1, 30, 31, 60, 61, 125, 180, 181, 600, 601}

\* video.duration as the loadedmetadata handler reads it: NaN and Infinity
\* are the two values that are not finite
Durations ==
  { [finite |-> TRUE, secs |-> 0], [finite |-> TRUE, secs |-> 125],
    [finite |-> FALSE, secs |-> 0] }

\* what happens when the frame at one timestamp is captured: it is pushed,
\* drawImage or toDataURL throws, or the canvas has no 2D context
CaptureOutcomes == {"ok", "throws", "noctx"}

\* an event of the video element that arrives while the seek to timestamp
\* `at` is outstanding
MediaEventsUpTo(count) ==
  {[at |-> 0, kind |-> "none"]}
    \cup [at : 1..count, kind : {"ended", "error"}]

MediaEvents == MediaEventsUpTo(NumFrames)

\* captureNextFrame and onseeked, from timestamp index i on
RECURSIVE CaptureLoop(_, _, _, _, _)
CaptureLoop(i, frames, count, capture, event) ==
  IF i > count THEN [settled |-> "resolved", frames |-> frames]
  ELSE IF event.at = i /\ event.kind = "ended"
    THEN [settled |-> "resolved", frames |-> frames]
  ELSE IF event.at = i /\ event.kind = "error"
    THEN [settled |-> "rejected", frames |-> frames]
  ELSE IF capture[i] = "noctx"
    THEN [settled |-> "rejected", frames |-> frames]
  ELSE IF capture[i] = "ok"
    THEN CaptureLoop(i + 1, Append(frames, i), count, capture, event)
  ELSE CaptureLoop(i + 1, frames, count, capture, event)

\* extractFrames(videoFile, config): loaded is FALSE when the element
\* reports an error before its metadata
extractFrames(loaded, duration, numFrames, capture, event) ==
  IF ~loaded THEN [settled |-> "rejected", frames |-> <<>>]
  ELSE IF ~duration.finite \/ duration.secs = 0
    THEN [settled |-> "rejected", frames |-> <<>>]
  ELSE IF ~(adaptiveFrameCount(numFrames, duration.secs) > 0)
    THEN [settled |-> "rejected", frames |-> <<>>]
  ELSE CaptureLoop(1, <<>>, adaptiveFrameCount(numFrames, duration.secs),
                   capture, event)

(***************************************************************************)
(* The frame sampler's arithmetic: the size of a captured frame            *)
(***************************************************************************)
\* the widths and heights of source frames: from 0 (a file without a picture)
\* to more than twice the longest side allowed
FrameDims == 0..(2 * MaxSize + 2)

Abs(n) == IF n < 0 THEN 0 - n ELSE n

\* Math.round(num / den) for num >= 0 and den > 0: the nearest integer, a
\* half rounded up
Round(num, den) == (2 * num + den) \div (2 * den)

\* Math.floor(num / den): the variant that truncates
Floor(num, den) == num \div den

\* the variant that scales every frame to the longest side
ResizeAlways(width, height, maxSize) ==
  IF width = 0 /\ height = 0 THEN [width |-> width, height |-> height]
  ELSE IF width > height
    THEN [width |-> maxSize, height |-> Round(maxSize * height, width)]
  ELSE [width |-> Round(maxSize * width, height), height |-> maxSize]

\* the variant that truncates the short side
ResizeTruncating(width, height, maxSize) ==
  IF width > maxSize \/ height > maxSize
    THEN IF width > height
           THEN [width |-> maxSize, height |-> Floor(maxSize * height, width)]
           ELSE [width |-> Floor(maxSize * width, height), height |-> maxSize]
  ELSE [width |-> width, height |-> height]

\* the size of the canvas in onseeked: aspectRatio = width / height, and the
\* short side is Math.round(maxSize / aspectRatio) or
\* Math.round(maxSize * aspectRatio)
Resize(width, height, maxSize) ==
  IF width > maxSize \/ height > maxSize
    THEN IF width > height
           THEN [width |-> maxSize, height |-> Round(maxSize * height, width)]
           ELSE [width |-> Round(maxSize * width, height), height |-> maxSize]
  ELSE [width |-> width, height |-> height]

(***************************************************************************)
(* The frame sampler's arithmetic: the timestamps.  A duration is counted  *)
(* in tenths of a second and a timestamp of a run of `count` frames in     *)
(* units of 1 / (count + 1) tenths, so that i * step is the integer        *)
(* i * duration and duration - 0.1 is (duration - 1) * (count + 1)         *)
(***************************************************************************)
Min(a, b) == IF a <= b THEN a ELSE b

\* the variant that does not keep the margin before the end
TimestampsUnclamped(duration, count) ==
  [i \in 1..count |-> i * duration]

\* timestampsToCapture: step = duration / (count + 1), and the i-th
\* timestamp is Math.min(i * step, duration - 0.1)
Timestamps(duration, count) ==
  [i \in 1..count |-> Min(i * duration, (duration - EndMargin) * (count + 1))]

(***************************************************************************)
(* The AI collaborator                                                     *)
(***************************************************************************)
\* what generateContent does: it fails, or it answers with response.text,
\* which is JSON text of some value, text that is no JSON, or undefined
AIResponses ==
  { [fails |-> TRUE, parses |-> FALSE, value |-> Null, raw |-> Undefined],
    [fails |-> FALSE, parses |-> TRUE, value |-> RecA, raw |-> Undefined],
    [fails |-> FALSE, parses |-> TRUE, value |-> Null, raw |-> Undefined],
    [fails |-> FALSE, parses |-> FALSE, value |-> Null, raw |-> RawText],
    [fails |-> FALSE, parses |-> FALSE, value |-> Null, raw |-> Undefined] }

\* a variant of generateStructuredVideoAnalysis without the inner catch: the
\* error of JSON.parse reaches the outer catch and is thrown again
generateStructuredVideoAnalysisRethrow(response) ==
  IF response.fails THEN [threw |-> TRUE, value |-> Null]
  ELSE IF response.parses THEN [threw |-> FALSE, value |-> response.value]
  ELSE [threw |-> TRUE, value |-> Null]

generateStructuredVideoAnalysis(response) ==
  IF response.fails THEN [threw |-> TRUE, value |-> Null]
  ELSE IF response.parses THEN [threw |-> FALSE, value |-> response.value]
  ELSE [threw |-> FALSE,
        value |-> [kind |-> "object", summary |-> response.raw,
                   objects |-> "[]", people |-> "[]", actions |-> "[]",
                   textContent |-> "[]", audioContext |-> "{}",
                   technicalAspects |-> "{}", metadata |-> "{}"]]

(***************************************************************************)
(* State                                                                   *)
(***************************************************************************)
VARIABLES
  now,                \* the clock, in days
  ls,                 \* localStorage as seen by the cache: item, avail, denied
  subtle,             \* whether window.crypto.subtle is there and works
  appStatus,          \* AppStatus
  videoFile,          \* the File the App holds, or NoFile
  analysisResult,     \* VideoAnalysisResult | null
  video,              \* the video element and the promise of one extractFrames call
  structuredAnalysis, \* StructuredVideoAnalysis | null
  usedCache,
  req,                \* the calls of analyzeVideo that are followed
  last                \* the last call of the cache's interface and its result

vars ==
  <<now, ls, subtle, appStatus, videoFile, analysisResult, structuredAnalysis,
    usedCache, req, last, video>>

NoFile == [name |-> "", size |-> 0, lastModified |-> 0]

\* the duration the loadedmetadata callback of the cache write reads
VideoDuration == 125

\* the analysis of the video a project holds
ProjectAnalysis == RecA

Requests == DOMAIN req

\* a call that has not been made yet.  pc is the await the call stands at;
\* cb is the state of its detached loadedmetadata callback.  The other
\* fields record what the call met and did.
IdleRequest ==
  [pc |-> "idle", file |-> NoFile, analysis |-> Null, frames |-> <<>>,
   cb |-> "none", hadLive |-> FALSE, readThrew |-> FALSE,
   sampler |-> "none", aiCalled |-> FALSE, aiOk |-> FALSE,
   overlapped |-> FALSE, wrote |-> FALSE]

\* a call and its callback are over
Over(r) ==
  /\ req[r].pc \in {"idle", "done", "failed"}
  /\ req[r].cb \in {"none", "done"}

\* the entries the stored item holds, whoever reads it
StoreEntries(item) == IF item.kind = "json" THEN item.value ELSE <<>>

\* the entry of the store for a hash (or Null), and whether it is live
StoredEntry(item, hash) == FindHash(StoreEntries(item), hash)
IsLive(entry, t) == entry # Null /\ t <= DateParse(entry.expiresAt)

\* what is recorded of saveCached
SaveInfo(s) ==
  [called |-> s.called, full |-> s.full, writes |-> s.writes,
   retries |-> s.retries, saved |-> s.saved, overflow |-> s.overflow]

\* no call of the cache's interface has been recorded
NoCall ==
  [op |-> "none", file |-> NoFile, analysis |-> Null, result |-> Null,
   threw |-> FALSE, save |-> SaveInfo(NotSaved(Absent, FALSE)), before |-> Absent]

\* extractFrames has not been called: no element, no timestamps, no frames
IdleVideo ==
  [phase |-> "none", numFrames |-> 0, count |-> 0, index |-> 0,
   frames |-> <<>>, seeking |-> {}, issued |-> {}, handled |-> {},
   ended |-> FALSE, promise |-> "pending", delivered |-> 0,
   seeksAfterSettled |-> FALSE]

\* the App's own state, and the sampler run followed on its own
appVars ==
  <<appStatus, videoFile, analysisResult, structuredAnalysis, usedCache, req,
    video>>

Init ==
  /\ now = 0
  /\ ls \in [item : {Absent}, avail : 0..QuotaMax, denied : BOOLEAN, freed : {0}]
  /\ subtle \in BOOLEAN
  /\ appStatus = "IDLE"
  /\ videoFile = NoFile
  /\ analysisResult = Null
  /\ structuredAnalysis = Null
  /\ usedCache = FALSE
  /\ req = [r \in 1..MaxRequests |-> IdleRequest]
  /\ last = NoCall
  /\ video = IdleVideo

(***************************************************************************)
(* analyzeVideo, one action per await                                      *)
(***************************************************************************)
\* the catch block of analyzeVideo
Fail(r, fields) ==
  /\ req' = [req EXCEPT ![r] = [fields EXCEPT !.pc = "failed"]]
  /\ appStatus' = "ERROR"

\* handleVideoSelected(file): the uploader is rendered, a file is picked or
\* dropped, and analyzeVideo runs up to its first await
handleVideoSelected(file) ==
  /\ videoFile = NoFile
  /\ appStatus # "SUCCESS"
  /\ \E r \in Requests :
       /\ Over(r)
       /\ \A q \in Requests : q < r => ~Over(q)
       /\ req' = [req EXCEPT ![r] = [IdleRequest EXCEPT !.pc = "hashing",
                                                        !.file = file]]
  /\ videoFile' = file
  /\ appStatus' = "LOADING"
  /\ analysisResult' = Null
  /\ structuredAnalysis' = Null
  /\ UNCHANGED <<video, last, now, ls, subtle, usedCache>>

\* getCachedAnalysis(file) returns (or throws) and analyzeVideo goes on to
\* extractFrames or to extractThumbnail
analyzeVideoCacheChecked(r) ==
  /\ req[r].pc = "hashing"
  /\ LET hash == generateVideoHash(req[r].file, subtle)
         g == getCachedAnalysis(ls, hash, now)
         seen == [req[r] EXCEPT
                    !.hadLive = IsLive(StoredEntry(ls.item, hash), now),
                    !.readThrew = g.threw]
     IN  /\ ls' = [ls EXCEPT !.item = g.item]
         /\ IF g.threw
              THEN /\ Fail(r, seen)
                   /\ UNCHANGED usedCache
            ELSE IF g.result # Null
              THEN /\ usedCache' = TRUE
                   /\ req' = [req EXCEPT ![r] = [seen EXCEPT !.pc = "thumbnail",
                                                             !.analysis = g.result]]
                   /\ UNCHANGED appStatus
            ELSE /\ usedCache' = FALSE
                 /\ req' = [req EXCEPT ![r] = [seen EXCEPT !.pc = "sampling",
                                                           !.sampler = "pending"]]
                 /\ UNCHANGED appStatus
  /\ UNCHANGED <<video, last, now, subtle, videoFile, analysisResult, structuredAnalysis>>

\* how the promise of extractFrames settled
SamplerOutcome(out) ==
  IF out.settled = "rejected" THEN "rejected"
  ELSE IF out.frames = <<>> THEN "empty"
  ELSE "frames"

\* a variant of analyzeVideoFramesExtracted without the test of
\* extractedFrames.length
analyzeVideoFramesUnchecked(r) ==
  /\ req[r].pc = "sampling"
  /\ \E loaded \in BOOLEAN, duration \in Durations,
        capture \in [1..NumFrames -> CaptureOutcomes], event \in MediaEvents :
       LET out == extractFrames(loaded, duration, NumFrames, capture, event)
           settled == [req[r] EXCEPT !.sampler = SamplerOutcome(out)]
       IN  IF out.settled = "rejected"
             THEN Fail(r, settled)
           ELSE /\ req' = [req EXCEPT ![r] = [settled EXCEPT !.pc = "requesting",
                                                              !.frames = out.frames,
                                                              !.aiCalled = TRUE]]
                /\ UNCHANGED appStatus
  /\ UNCHANGED <<video, last, now, ls, subtle, videoFile, analysisResult, structuredAnalysis,
                 usedCache>>

\* the promise of extractFrames settles; on frames, the AI call is made
analyzeVideoFramesExtracted(r) ==
  /\ req[r].pc = "sampling"
  /\ \E loaded \in BOOLEAN, duration \in Durations,
        capture \in [1..NumFrames -> CaptureOutcomes], event \in MediaEvents :
       LET out == extractFrames(loaded, duration, NumFrames, capture, event)
           settled == [req[r] EXCEPT !.sampler = SamplerOutcome(out)]
       IN  IF out.settled = "rejected" \/ Len(out.frames) = 0
             THEN Fail(r, settled)
           ELSE /\ req' = [req EXCEPT ![r] = [settled EXCEPT !.pc = "requesting",
                                                              !.frames = out.frames,
                                                              !.aiCalled = TRUE]]
                /\ UNCHANGED appStatus
  /\ UNCHANGED <<video, last, now, ls, subtle, videoFile, analysisResult, structuredAnalysis,
                 usedCache>>

\* generateStructuredVideoAnalysis returns or throws; on a value the
\* loadedmetadata listener that will cache it is registered
analyzeVideoAnalysed(r) ==
  /\ req[r].pc = "requesting"
  /\ \E response \in AIResponses :
       LET g == generateStructuredVideoAnalysis(response)
       IN  IF g.threw
             THEN Fail(r, req[r])
           ELSE /\ req' = [req EXCEPT ![r].pc = "thumbnail",
                                      ![r].analysis = g.value,
                                      ![r].aiOk = TRUE,
                                      ![r].cb = "registered"]
                /\ UNCHANGED appStatus
  /\ UNCHANGED <<video, last, now, ls, subtle, videoFile, analysisResult, structuredAnalysis,
                 usedCache>>

\* a variant of analyzeVideoFinished in which the TypeError of reading
\* .summary of null is not caught: the call ends without setting a status
analyzeVideoFinishedNoCatch(r) ==
  /\ req[r].pc = "thumbnail"
  /\ req[r].analysis # Null
  /\ analysisResult' = [frames |-> req[r].frames,
                        description |-> Prop(req[r].analysis, "summary")]
  /\ structuredAnalysis' = req[r].analysis
  /\ appStatus' = "SUCCESS"
  /\ req' = [req EXCEPT ![r].pc = "done"]
  /\ UNCHANGED <<video, last, now, ls, subtle, videoFile, usedCache>>

\* extractThumbnail resolves and the results are set; reading .summary of
\* null throws into the catch block
analyzeVideoFinished(r) ==
  /\ req[r].pc = "thumbnail"
  /\ IF req[r].analysis = Null
       THEN /\ Fail(r, req[r])
            /\ UNCHANGED <<analysisResult, structuredAnalysis>>
     ELSE /\ analysisResult' = [frames |-> req[r].frames,
                                description |-> Prop(req[r].analysis, "summary")]
          /\ structuredAnalysis' = req[r].analysis
          /\ appStatus' = "SUCCESS"
          /\ req' = [req EXCEPT ![r].pc = "done"]
  /\ UNCHANGED <<video, last, now, ls, subtle, videoFile, usedCache>>

\* loadedmetadata of the detached video element: cacheAnalysis is called
\* and awaits the hash
cacheCallbackFired(r) ==
  /\ req[r].cb = "registered"
  /\ req' = [req EXCEPT ![r].cb = "hashing",
                        ![r].overlapped =
                            \E q \in Requests : q # r /\ req[q].cb = "hashing"]
  /\ UNCHANGED <<video, last, now, ls, subtle, appStatus, videoFile, analysisResult,
                 structuredAnalysis, usedCache>>

\* cacheAnalysis reads the array, replaces the entry and saves
cacheAnalysisDone(r) ==
  /\ req[r].cb = "hashing"
  /\ LET hash == generateVideoHash(req[r].file, subtle)
         c == cacheAnalysis(ls, req[r].file, hash, req[r].analysis, VideoDuration, now)
     IN  /\ ls' = [ls EXCEPT !.item = c.item]
         /\ req' = [req EXCEPT ![r].cb = "done", ![r].wrote = c.save.saved]
  /\ UNCHANGED <<video, last, now, subtle, appStatus, videoFile, analysisResult,
                 structuredAnalysis, usedCache>>

(***************************************************************************)
(* The other handlers of the App and of the settings panel                 *)
(***************************************************************************)
\* the button "Pujar nou vídeo"
uploadNewVideo ==
  /\ videoFile # NoFile
  /\ appStatus # "LOADING"
  /\ videoFile' = NoFile
  /\ analysisResult' = Null
  /\ structuredAnalysis' = Null
  /\ appStatus' = "IDLE"
  /\ UNCHANGED <<video, last, now, ls, subtle, usedCache, req>>

handleLoadVideoFromProject ==
  /\ structuredAnalysis' = ProjectAnalysis
  /\ analysisResult' = [frames |-> <<>>, description |-> ProjectAnalysis.summary]
  /\ appStatus' = "SUCCESS"
  /\ videoFile' = NoFile
  /\ UNCHANGED <<video, last, now, ls, subtle, usedCache, req>>

\* the settings panel: clear all, clear expired, remove one video
handleClearAll ==
  /\ ls' = [ls EXCEPT !.item = clearAllCache(ls)]
  /\ UNCHANGED <<video, last, now, subtle, appStatus, videoFile, analysisResult,
                 structuredAnalysis, usedCache, req>>

handleClearExpired ==
  /\ ~clearExpiredCache(ls, now).threw
  /\ ls' = [ls EXCEPT !.item = clearExpiredCache(ls, now).item]
  /\ UNCHANGED <<video, last, now, subtle, appStatus, videoFile, analysisResult,
                 structuredAnalysis, usedCache, req>>

handleRemoveVideo(fileName, fileSize) ==
  /\ ~removeCachedVideo(ls, fileName, fileSize, now).threw
  /\ ls' = [ls EXCEPT !.item = removeCachedVideo(ls, fileName, fileSize, now).item]
  /\ UNCHANGED <<video, last, now, subtle, appStatus, videoFile, analysisResult,
                 structuredAnalysis, usedCache, req>>

(***************************************************************************)
(* The environment                                                         *)
(***************************************************************************)
\* time passes
Tick(instants) ==
  /\ \E t \in instants : t > now /\ now' = t
  /\ last' = NoCall
  /\ UNCHANGED <<ls, subtle, appVars>>

\* the other keys of the origin (projects, settings) grow or shrink; what
\* is stored always fits
OtherKeysChange ==
  /\ \E k \in 0..QuotaMax :
       /\ k # ls.avail
       /\ ItemSize(ls.item) <= k
       /\ ls' = [ls EXCEPT !.avail = k]
  /\ last' = NoCall
  /\ UNCHANGED <<now, subtle, appVars>>

\* the stored text is damaged or is in a shape this code did not write
StoreDamaged ==
  /\ ~ls.denied
  /\ ls.avail >= 1
  /\ \E text \in {Garbage, NonArray} :
       /\ text # ls.item
       /\ ls' = [ls EXCEPT !.item = text]
  /\ last' = NoCall
  /\ UNCHANGED <<now, subtle, appVars>>

Next ==
  \/ \E file \in AppFiles : handleVideoSelected(file)
  \/ \E r \in Requests : analyzeVideoCacheChecked(r)
  \/ \E r \in Requests : analyzeVideoFramesExtracted(r)
  \/ \E r \in Requests : analyzeVideoAnalysed(r)
  \/ \E r \in Requests : analyzeVideoFinished(r)
  \/ \E r \in Requests : cacheCallbackFired(r)
  \/ \E r \in Requests : cacheAnalysisDone(r)
  \/ uploadNewVideo
  \/ handleLoadVideoFromProject
  \/ handleClearAll
  \/ handleClearExpired
  \/ \E file \in AppFiles : handleRemoveVideo(file.name, file.size)
  \/ Tick(AppTimes)
  \/ OtherKeysChange
  \/ StoreDamaged

Spec == Init /\ [][Next]_vars

(***************************************************************************)
(* The cache on its own: the exported functions of cacheService.ts called  *)
(* one after the other, each call recorded in `last`                       *)
(***************************************************************************)
\* the analyses handed to cacheAnalysis: two records of the declared type,
\* and the record of a reply whose text was undefined
CachedAnalyses ==
  { RecA, RecB,
    generateStructuredVideoAnalysis(
      [fails |-> FALSE, parses |-> FALSE, value |-> Null, raw |-> Undefined]).value }

callCacheAnalysis(file, analysis) ==
  /\ LET hash == generateVideoHash(file, subtle)
         c == cacheAnalysis(ls, file, hash, analysis, VideoDuration, now)
     IN  /\ ls' = [ls EXCEPT !.item = c.item]
         /\ last' = [op |-> "put", file |-> file, analysis |-> analysis,
                     result |-> Null, threw |-> c.threw, save |-> SaveInfo(c.save),
                     before |-> ls.item]
  /\ UNCHANGED <<now, subtle, appVars>>

\* cacheAnalysis while another tab of the origin deletes keys of its own:
\* the room comes back after the first setItem of saveCached has failed
callCacheAnalysisRoomFreed(file, analysis, freed) ==
  /\ ls.avail + freed <= QuotaMax
  /\ LET hash == generateVideoHash(file, subtle)
         c == cacheAnalysis([ls EXCEPT !.freed = freed], file, hash, analysis,
                            VideoDuration, now)
     IN  /\ c.save.full
         /\ ls' = [ls EXCEPT !.item = c.item, !.avail = @ + freed]
         /\ last' = [op |-> "put", file |-> file, analysis |-> analysis,
                     result |-> Null, threw |-> c.threw, save |-> SaveInfo(c.save),
                     before |-> ls.item]
  /\ UNCHANGED <<now, subtle, appVars>>

callGetCachedAnalysis(file) ==
  /\ LET hash == generateVideoHash(file, subtle)
         g == getCachedAnalysis(ls, hash, now)
     IN  /\ ls' = [ls EXCEPT !.item = g.item]
         /\ last' = [op |-> "get", file |-> file, analysis |-> Null,
                     result |-> g.result, threw |-> g.threw, save |-> SaveInfo(g.save),
                     before |-> ls.item]
  /\ UNCHANGED <<now, subtle, appVars>>

callRemoveCachedVideo(file) ==
  /\ LET c == removeCachedVideo(ls, file.name, file.size, now)
     IN  /\ ls' = [ls EXCEPT !.item = c.item]
         /\ last' = [op |-> "remove", file |-> [file EXCEPT !.lastModified = 0],
                     analysis |-> Null, result |-> c.result, threw |-> c.threw,
                     save |-> SaveInfo(c.save), before |-> ls.item]
  /\ UNCHANGED <<now, subtle, appVars>>

callClearExpiredCache ==
  /\ LET c == clearExpiredCache(ls, now)
     IN  /\ ls' = [ls EXCEPT !.item = c.item]
         /\ last' = [op |-> "clearExpired", file |-> NoFile, analysis |-> Null,
                     result |-> c.count, threw |-> c.threw, save |-> SaveInfo(c.save),
                     before |-> ls.item]
  /\ UNCHANGED <<now, subtle, appVars>>

callClearOldCache(daysToKeep) ==
  /\ LET c == clearOldCache(ls, daysToKeep, now, 0)
     IN  /\ ls' = [ls EXCEPT !.item = c.item]
         /\ last' = [op |-> "clearOld", file |-> NoFile, analysis |-> Null,
                     result |-> c.count, threw |-> c.threw, save |-> SaveInfo(c.save),
                     before |-> ls.item]
  /\ UNCHANGED <<now, subtle, appVars>>

\* clearOldCache(CACHE_DURATION_DAYS) and clearExpiredCache() run on the same
\* store at the same instant: the store goes on as clearExpiredCache leaves
\* it, and what clearOldCache would have left and returned is recorded
callBothSweeps ==
  /\ LET c == clearExpiredCache(ls, now)
         o == clearOldCache(ls, CACHE_DURATION_DAYS, now, 0)
     IN  /\ ls' = [ls EXCEPT !.item = c.item]
         /\ last' = [op |-> "sweeps", file |-> NoFile, analysis |-> Null,
                     result |-> c.count, threw |-> c.threw, save |-> SaveInfo(c.save),
                     before |-> ls.item,
                     older |-> [item |-> o.item, count |-> o.count, threw |-> o.threw]]
  /\ UNCHANGED <<now, subtle, appVars>>

callClearAllCache ==
  /\ ls' = [ls EXCEPT !.item = clearAllCache(ls)]
  /\ last' = [NoCall EXCEPT !.op = "clearAll", !.before = ls.item]
  /\ UNCHANGED <<now, subtle, appVars>>

callGetCacheStats ==
  /\ LET c == getCacheStats(ls, now)
     IN  last' = [NoCall EXCEPT !.op = "stats", !.threw = c.threw,
                                !.before = ls.item,
                                !.result = [totalEntries |-> c.totalEntries,
                                            totalSize |-> c.totalSize,
                                            expiringCount |-> c.expiringCount]]
  /\ UNCHANGED <<now, ls, subtle, appVars>>

callGetCachedVideos ==
  /\ LET c == getCachedVideos(ls)
     IN  last' = [NoCall EXCEPT !.op = "videos", !.threw = c.threw,
                                !.before = ls.item,
                                !.result = c.rows]
  /\ UNCHANGED <<now, ls, subtle, appVars>>

NextCache ==
  \/ \E file \in Files, analysis \in CachedAnalyses : callCacheAnalysis(file, analysis)
  \/ \E file \in Files, analysis \in CachedAnalyses, freed \in 1..QuotaMax :
       callCacheAnalysisRoomFreed(file, analysis, freed)
  \/ \E file \in Files : callGetCachedAnalysis(file)
  \/ \E file \in Files : callRemoveCachedVideo(file)
  \/ callClearExpiredCache
  \/ \E days \in {PRESSURE_KEEP_DAYS, CACHE_DURATION_DAYS} : callClearOldCache(days)
  \/ callBothSweeps
  \/ callClearAllCache
  \/ callGetCacheStats
  \/ callGetCachedVideos
  \/ Tick(Times)
  \/ OtherKeysChange
  \/ StoreDamaged

SpecCache == Init /\ [][NextCache]_vars

(***************************************************************************)
(* The App of src/App.tsx: analyzeVideo without the cache, and the         *)
(* VideoUploader of components/VideoUploader.tsx, which it always renders  *)
(***************************************************************************)
\* the calls of analyzeVideo that have not ended
InFlight == {r \in Requests : req[r].pc \in {"hashing", "sampling", "requesting", "thumbnail"}}

\* one more call is followed than in Spec, so that a call started while
\* another has not ended is seen
InitApp ==
  /\ now = 0
  /\ ls = [item |-> Absent, avail |-> QuotaMax, denied |-> FALSE, freed |-> 0]
  /\ subtle = TRUE
  /\ appStatus = "IDLE"
  /\ videoFile = NoFile
  /\ analysisResult = Null
  /\ structuredAnalysis = Null
  /\ usedCache = FALSE
  /\ req = [r \in 1..(MaxRequests + 1) |-> IdleRequest]
  /\ last = NoCall
  /\ video = IdleVideo

\* handleVideoSelected(file) of src/App.tsx: analyzeVideo runs up to
\* await extractFrames
appHandleVideoSelected(file) ==
  /\ \E r \in Requests :
       /\ Over(r)
       /\ \A q \in Requests : q < r => ~Over(q)
       /\ req' = [req EXCEPT ![r] = [IdleRequest EXCEPT !.pc = "sampling",
                                                        !.file = file,
                                                        !.sampler = "pending"]]
  /\ videoFile' = file
  /\ appStatus' = "LOADING"
  /\ analysisResult' = Null
  /\ structuredAnalysis' = Null
  /\ UNCHANGED <<video, last, now, ls, subtle, usedCache>>

\* handleFileChange: the file input is disabled while the status is LOADING
handleFileChange(file) ==
  /\ appStatus # "LOADING"
  /\ appHandleVideoSelected(file)

\* handleDrop: the drop zone takes a video file whatever the status
handleDrop(file) ==
  /\ appHandleVideoSelected(file)

\* generateStructuredVideoAnalysis returns or throws and the results are
\* set; reading .summary of null throws into the catch block
appAnalysed(r) ==
  /\ req[r].pc = "requesting"
  /\ \E response \in AIResponses :
       LET g == generateStructuredVideoAnalysis(response)
       IN  IF g.threw
             THEN /\ Fail(r, req[r])
                  /\ UNCHANGED <<analysisResult, structuredAnalysis>>
           ELSE IF g.value = Null
             THEN /\ Fail(r, [req[r] EXCEPT !.aiOk = TRUE])
                  /\ UNCHANGED <<analysisResult, structuredAnalysis>>
           ELSE /\ analysisResult' = [frames |-> req[r].frames,
                                      description |-> Prop(g.value, "summary")]
                /\ structuredAnalysis' = g.value
                /\ appStatus' = "SUCCESS"
                /\ req' = [req EXCEPT ![r].pc = "done",
                                      ![r].analysis = g.value,
                                      ![r].aiOk = TRUE]
  /\ UNCHANGED <<video, last, now, ls, subtle, videoFile, usedCache>>

NextApp ==
  \/ \E file \in AppFiles : handleFileChange(file)
  \/ \E file \in AppFiles : handleDrop(file)
  \/ \E r \in Requests : analyzeVideoFramesExtracted(r)
  \/ \E r \in Requests : appAnalysed(r)

SpecApp == InitApp /\ [][NextApp]_vars

(***************************************************************************)
(* The App with one more call followed than Spec follows, so that the      *)
(* detached cache callbacks of two calls are pending at the same time; the *)
(* store is empty and has room, and nothing but the App touches it         *)
(***************************************************************************)
NextOverlap ==
  \/ \E file \in AppFiles : handleVideoSelected(file)
  \/ \E r \in Requests : analyzeVideoCacheChecked(r)
  \/ \E r \in Requests : analyzeVideoFramesExtracted(r)
  \/ \E r \in Requests : analyzeVideoAnalysed(r)
  \/ \E r \in Requests : analyzeVideoFinished(r)
  \/ \E r \in Requests : cacheCallbackFired(r)
  \/ \E r \in Requests : cacheAnalysisDone(r)
  \/ uploadNewVideo

SpecOverlap == InitApp /\ [][NextOverlap]_vars

(***************************************************************************)
(* The pure functions on their own: the sampler, the hasher and the AI     *)
(* call, each applied to inputs drawn from small sets and recorded in      *)
(* `last`.  The functions keep no state between calls, so a behaviour is   *)
(* one call                                                                *)
(***************************************************************************)
callExtractFrames(loaded, duration, numFrames, capture, event) ==
  /\ last = NoCall
  /\ last' = [op |-> "extractFrames", loaded |-> loaded, duration |-> duration,
              numFrames |-> numFrames, capture |-> capture, event |-> event,
              result |-> extractFrames(loaded, duration, numFrames, capture, event)]
  /\ UNCHANGED <<now, ls, subtle, appVars>>

\* two calls of generateVideoHash; each finds SubtleCrypto working or not
callGenerateVideoHash(file1, subtle1, file2, subtle2) ==
  /\ last = NoCall
  /\ last' = [op |-> "hash", file1 |-> file1, subtle1 |-> subtle1,
              file2 |-> file2, subtle2 |-> subtle2,
              digest1 |-> generateVideoHash(file1, subtle1),
              digest2 |-> generateVideoHash(file2, subtle2)]
  /\ UNCHANGED <<now, ls, subtle, appVars>>

callGenerateStructuredVideoAnalysis(response) ==
  /\ last = NoCall
  /\ last' = [op |-> "analyse", response |-> response,
              result |-> generateStructuredVideoAnalysis(response)]
  /\ UNCHANGED <<now, ls, subtle, appVars>>

\* the canvas size onseeked chooses for a source frame of width x height
callResize(width, height) ==
  /\ last = NoCall
  /\ last' = [op |-> "resize", width |-> width, height |-> height,
              maxSize |-> MaxSize, result |-> Resize(width, height, MaxSize)]
  /\ UNCHANGED <<now, ls, subtle, appVars>>

\* the timestamps onloadedmetadata computes for a video of `duration` tenths
\* of a second and a frame count
callTimestamps(duration, count) ==
  /\ last = NoCall
  /\ last' = [op |-> "timestamps", duration |-> duration, count |-> count,
              result |-> Timestamps(duration, count)]
  /\ UNCHANGED <<now, ls, subtle, appVars>>

\* the frame counts onloadedmetadata chooses for two videos under one
\* configuration
callFrameCount(numFrames, shorter, longer) ==
  /\ last = NoCall
  /\ shorter <= longer
  /\ last' = [op |-> "frameCount", numFrames |-> numFrames,
              shorter |-> shorter, longer |-> longer,
              countShorter |-> adaptiveFrameCount(numFrames, shorter),
              countLonger |-> adaptiveFrameCount(numFrames, longer)]
  /\ UNCHANGED <<now, ls, subtle, appVars>>

NextPure ==
  \/ \E numFrames \in 0..MaxCaptures, shorter \in SampleSecs, longer \in SampleSecs :
       callFrameCount(numFrames, shorter, longer)
  \/ \E duration \in 1..MaxTenths, count \in 1..MaxCaptures :
       callTimestamps(duration, count)
  \/ \E width \in FrameDims, height \in FrameDims : callResize(width, height)
  \/ \E loaded \in BOOLEAN, duration \in Durations, numFrames \in 1..MaxCaptures :
       \E capture \in [1..numFrames -> CaptureOutcomes],
          event \in MediaEventsUpTo(numFrames) :
         callExtractFrames(loaded, duration, numFrames, capture, event)
  \/ \E file1 \in Files, file2 \in Files, subtle1 \in BOOLEAN, subtle2 \in BOOLEAN :
       callGenerateVideoHash(file1, subtle1, file2, subtle2)
  \/ \E response \in AIResponses : callGenerateStructuredVideoAnalysis(response)

\* the functions read nothing of the store, the clock or the App
InitPure ==
  /\ Init
  /\ ls = [item |-> Absent, avail |-> QuotaMax, denied |-> FALSE, freed |-> 0]
  /\ subtle = TRUE

SpecPure == InitPure /\ [][NextPure]_vars

(***************************************************************************)
(* The frame sampler step by step: one extractFrames call, one action per  *)
(* event handler of its video element.  video.index is                     *)
(* currentCaptureIndex, video.seeking the timestamps (by position, from 1) *)
(* whose seek has been started and has not yet fired seeked; issued,       *)
(* handled, delivered and seeksAfterSettled only record what has happened  *)
(***************************************************************************)
\* everything but the sampler run
samplerRest ==
  <<now, ls, subtle, appStatus, videoFile, analysisResult, structuredAnalysis,
    usedCache, req, last>>

\* resolve(frames): the promise is settled with the array `frames` itself; a
\* settled promise stays as it is
Resolve(v) ==
  IF v.promise = "pending"
    THEN [v EXCEPT !.promise = "resolved", !.delivered = Len(v.frames)]
    ELSE v

\* reject(error)
Reject(v) ==
  IF v.promise = "pending" THEN [v EXCEPT !.promise = "rejected"] ELSE v

\* captureNextFrame: past the last timestamp the video is paused and the
\* promise resolved, otherwise video.currentTime is set, which starts a seek
captureNextFrame(v) ==
  IF v.index >= v.count
    THEN Resolve([v EXCEPT !.phase = "stopped"])
    ELSE [v EXCEPT !.seeking = @ \cup {v.index + 1},
                   !.issued = @ \cup {v.index + 1},
                   !.seeksAfterSettled = @ \/ v.promise # "pending"]

\* extractFrames(videoFile, config): the element is created and starts to
\* load and play
extractFramesCalled(numFrames) ==
  /\ video.phase = "none"
  /\ video' = [IdleVideo EXCEPT !.phase = "loading", !.numFrames = numFrames]
  /\ UNCHANGED samplerRest

\* the variant that starts the seeks to all timestamps at once
onloadedmetadataAllAtOnce(duration) ==
  /\ video.phase = "loading"
  /\ LET count == adaptiveFrameCount(video.numFrames, duration.secs)
     IN  IF ~duration.finite \/ duration.secs = 0 \/ ~(count > 0)
           THEN video' = Reject([video EXCEPT !.phase = "stopped"])
           ELSE video' = [video EXCEPT !.phase = "capturing", !.count = count,
                                       !.seeking = 1..count, !.issued = 1..count]
  /\ UNCHANGED samplerRest

\* video.onloadedmetadata
onloadedmetadata(duration) ==
  /\ video.phase = "loading"
  /\ LET count == adaptiveFrameCount(video.numFrames, duration.secs)
     IN  IF ~duration.finite \/ duration.secs = 0
           THEN video' = Reject([video EXCEPT !.phase = "stopped"])
         ELSE IF ~(count > 0)
           THEN video' = Reject([video EXCEPT !.phase = "stopped"])
         ELSE video' = captureNextFrame([video EXCEPT !.phase = "capturing",
                                                      !.count = count])
  /\ UNCHANGED samplerRest

\* video.onseeked, fired when a started seek completes; the capture pushes a
\* frame, throws, or finds no 2D context
onseeked(outcome) ==
  /\ video.phase = "capturing"
  /\ \E i \in video.seeking :
       LET v == [video EXCEPT !.seeking = @ \ {i}]
       IN  IF outcome = "noctx" THEN video' = Reject(v)
           ELSE IF outcome = "ok"
             THEN video' = captureNextFrame(
                             [v EXCEPT !.frames = Append(@, v.index + 1),
                                       !.handled = @ \cup {v.index + 1},
                                       !.index = @ + 1])
           ELSE video' = captureNextFrame(
                           [v EXCEPT !.handled = @ \cup {v.index + 1},
                                     !.index = @ + 1])
  /\ UNCHANGED samplerRest

\* video.onended: the playback started by autoplay reaches the end of the
\* video while the timestamps are being captured
onended ==
  /\ video.phase = "capturing"
  /\ ~video.ended
  /\ video' = Resolve([video EXCEPT !.ended = TRUE])
  /\ UNCHANGED samplerRest

\* video.onerror, before or after the metadata: the element fires no
\* further event
onerror ==
  /\ video.phase \in {"loading", "capturing"}
  /\ video' = Reject([video EXCEPT !.phase = "stopped", !.seeking = {}])
  /\ UNCHANGED samplerRest

NextSampler ==
  \/ \E numFrames \in 0..MaxCaptures : extractFramesCalled(numFrames)
  \/ \E duration \in Durations : onloadedmetadata(duration)
  \/ \E outcome \in CaptureOutcomes : onseeked(outcome)
  \/ onended
  \/ onerror

SpecSampler == InitPure /\ [][NextSampler]_vars

(***************************************************************************)
(* Progress.  The App (one call followed at a time, the store empty and    *)
(* with room at the start) next to a sampler run, under the assumption     *)
(* that every promise analyzeVideo awaits is settled in the end and that   *)
(* every media load and every seek completes unless the element signals an *)
(* error first                                                             *)
(***************************************************************************)
NextLive ==
  \/ \E file \in AppFiles : handleVideoSelected(file)
  \/ \E r \in Requests : analyzeVideoCacheChecked(r)
  \/ \E r \in Requests : analyzeVideoFramesExtracted(r)
  \/ \E r \in Requests : analyzeVideoAnalysed(r)
  \/ \E r \in Requests : analyzeVideoFinished(r)
  \/ \E r \in Requests : cacheCallbackFired(r)
  \/ \E r \in Requests : cacheAnalysisDone(r)
  \/ uploadNewVideo
  \/ \E numFrames \in 1..NumFrames : extractFramesCalled(numFrames)
  \/ \E duration \in Durations : onloadedmetadata(duration)
  \/ \E outcome \in CaptureOutcomes : onseeked(outcome)
  \/ onended
  \/ onerror

\* the hash, the sampler, the AI call and the thumbnail settle; the metadata
\* load and each seek complete unless onerror comes first
Fairness ==
  /\ \A r \in 1..MaxRequests :
       /\ WF_vars(analyzeVideoCacheChecked(r))
       /\ WF_vars(analyzeVideoFramesExtracted(r))
       /\ WF_vars(analyzeVideoAnalysed(r))
       /\ WF_vars(analyzeVideoFinished(r))
  /\ WF_vars(\E duration \in Durations : onloadedmetadata(duration))
  /\ WF_vars(\E outcome \in CaptureOutcomes : onseeked(outcome))

SpecLive == InitPure /\ [][NextLive]_vars /\ Fairness

(***************************************************************************)
(* Properties                                                              *)
(***************************************************************************)
\* the hash of the file of the last recorded call
LastHash == generateVideoHash(last.file, subtle)

\* the number of entries of a stored item that carry a hash
CountHash(item, hash) ==
  Cardinality({i \in 1..Len(StoreEntries(item)) : StoreEntries(item)[i].videoHash = hash})

\* no two entries of a stored item carry the same hash
Unique(item) ==
  \A i, j \in 1..Len(StoreEntries(item)) :
    i # j => StoreEntries(item)[i].videoHash # StoreEntries(item)[j].videoHash

\* C1 (as claimed): a call of analyzeVideo that finds a live entry for its
\* file in the store never starts the frame sampler and never calls the AI.
C1_CacheHitSkip ==
  \A r \in Requests :
    req[r].hadLive => (req[r].sampler = "none" /\ ~req[r].aiCalled)

\* C2 (as claimed): right after cacheAnalysis of a record of the declared
\* type, getCachedAnalysis for the same file returns that record.
C2_RoundTrip ==
  (last.op = "put" /\ IsStructuredVideoAnalysis(last.analysis))
    => getCachedAnalysis(ls, LastHash, now).result = last.analysis

\* C2 (amended): right after a cacheAnalysis whose write was stored,
\* getCachedAnalysis for the same file returns exactly the record of the
\* declared type that was written, raises nothing and leaves the store as
\* it is.
C2_RoundTripWhenStored ==
  (last.op = "put" /\ last.save.saved /\ IsStructuredVideoAnalysis(last.analysis))
    => LET g == getCachedAnalysis(ls, LastHash, now)
       IN  /\ g.result = last.analysis
           /\ ~g.threw
           /\ g.item = ls.item

\* C2 witness: a record was stored next to the entry of another file
C2_Witness ==
  /\ last.op = "put"
  /\ last.save.saved
  /\ last.analysis = RecA
  /\ Len(StoreEntries(ls.item)) = 2
  /\ getCachedAnalysis(ls, LastHash, now).result = RecA

\* C3 (as claimed): the store never holds two entries of one videoHash, and
\* after a cacheAnalysis for a file that already had an entry the store
\* holds exactly one entry for it, carrying the data of this second put.
C3_UniqueSecondPutWins ==
  /\ Unique(ls.item)
  /\ (last.op = "put" /\ StoredEntry(last.before, LastHash) # Null)
       => /\ CountHash(ls.item, LastHash) = 1
          /\ StoredEntry(ls.item, LastHash).analysis = StringifyAnalysis(last.analysis)

\* C3 (amended): the store never holds two entries of one videoHash, and
\* after a cacheAnalysis whose write was stored the store holds exactly one
\* entry for the file, carrying the data of that put.
C3_UniqueStoredPutWins ==
  /\ Unique(ls.item)
  /\ (last.op = "put" /\ last.save.saved)
       => /\ CountHash(ls.item, LastHash) = 1
          /\ StoredEntry(ls.item, LastHash).analysis = StringifyAnalysis(last.analysis)
          /\ StoredEntry(ls.item, LastHash).cachedAt = ToISOString(now)

\* C3 witness: a second put for a file replaced the different data of the
\* first one, next to the entry of another file
C3_Witness ==
  /\ last.op = "put"
  /\ last.save.saved
  /\ StoredEntry(last.before, LastHash) # Null
  /\ StoredEntry(last.before, LastHash).analysis # StringifyAnalysis(last.analysis)
  /\ Len(StoreEntries(ls.item)) = 2

\* C4: when getCachedAnalysis is called for a file whose entry has
\* now > expiresAt, it returns null, the entry is gone from the store after
\* the call, and the entry of every other hash is as it was.
C4_ExpiryOnGet ==
  (/\ last.op = "get"
   /\ StoredEntry(last.before, LastHash) # Null
   /\ now > DateParse(StoredEntry(last.before, LastHash).expiresAt))
    => /\ last.result = Null
       /\ ~last.threw
       /\ StoredEntry(ls.item, LastHash) = Null
       /\ \A f \in Files :
            generateVideoHash(f, subtle) # LastHash
              => StoredEntry(ls.item, generateVideoHash(f, subtle))
                   = StoredEntry(last.before, generateVideoHash(f, subtle))

\* C4 witness: an expired entry was looked up while another file had an
\* entry too
C4_Witness ==
  /\ last.op = "get"
  /\ StoredEntry(last.before, LastHash) # Null
  /\ now > DateParse(StoredEntry(last.before, LastHash).expiresAt)
  /\ Len(StoreEntries(last.before)) = 2
  /\ Len(StoreEntries(ls.item)) = 1

\* C5: every entry of the store has expiresAt = cachedAt + 30 days, and the
\* entry a stored put leaves has cachedAt = the time of that put.
C5_ThirtyDayLifetime ==
  /\ \A i \in 1..Len(StoreEntries(ls.item)) :
       DateParse(StoreEntries(ls.item)[i].expiresAt)
         = DateParse(StoreEntries(ls.item)[i].cachedAt) + 30 * DayMs
  /\ (last.op = "put" /\ last.save.saved)
       => StoredEntry(ls.item, LastHash).cachedAt = ToISOString(now)

\* C5 witness: an entry written earlier is still in the store after a
\* sweep that removed another one
C5_Witness ==
  /\ last.op = "clearExpired"
  /\ last.result = 1
  /\ Len(StoreEntries(ls.item)) = 1
  /\ DateParse(StoreEntries(ls.item)[1].cachedAt) < now

\* C6: when the first setItem of saveCached fails because the store is
\* full, the original write is retried exactly once, at most three setItem
\* calls are made in all, the nesting of saveCached and clearOldCache stays
\* off the end of the stack, nothing is thrown to the caller, and unless the
\* retry stored the array no entry older than 7 days is left.
C6_BoundedRecovery ==
  (last.save.called /\ last.save.full)
    => /\ last.save.retries = 1
       /\ last.save.writes <= 3
       /\ ~last.save.overflow
       /\ ~last.threw
       /\ ~last.save.saved
            => \A i \in 1..Len(StoreEntries(ls.item)) :
                 DateParse(StoreEntries(ls.item)[i].cachedAt) >= now - 7 * DayMs

\* C6 witness: the store was full, an old entry was evicted and the write
\* was retried
C6_Witness ==
  /\ last.op = "put"
  /\ last.save.full
  /\ last.save.writes = 3
  /\ last.save.retries = 1
  /\ Len(StoreEntries(ls.item)) < Len(StoreEntries(last.before))

\* C7: when the stored text cannot be parsed, getCachedAnalysis returns
\* null, getCacheStats counts no entry, getCachedVideos lists nothing and
\* clearExpiredCache removes nothing, and none of them throws.
C7_CorruptionIsEmpty ==
  (last.before = Garbage /\ last.op \in {"get", "stats", "videos", "clearExpired"})
    => /\ ~last.threw
       /\ ls.item = Garbage
       /\ last.op = "get" => last.result = Null
       /\ last.op = "stats"
            => (last.result.totalEntries = 0 /\ last.result.expiringCount = 0)
       /\ last.op = "videos" => last.result = <<>>
       /\ last.op = "clearExpired" => last.result = 0

\* C7 witness: the statistics were read off unparseable text
C7_Witness ==
  /\ last.op = "stats"
  /\ last.before = Garbage
  /\ last.result.totalEntries = 0

\* C8 (as claimed): no call of analyzeVideo whose cache read threw ends in
\* ERROR, and every call whose AI call returned ends in SUCCESS.
C8_CacheFailuresNeverFail ==
  \A r \in Requests :
    /\ req[r].readThrew => req[r].pc # "failed"
    /\ req[r].aiOk => req[r].pc # "failed"

\* C9: the AI is only ever called with at least one frame, and a call of
\* analyzeVideo whose sampler rejected or resolved with no frame has ended
\* in ERROR without calling the AI.
C9_NoEmptyFrameSet ==
  \A r \in Requests :
    /\ req[r].aiCalled => Len(req[r].frames) > 0
    /\ req[r].sampler \in {"rejected", "empty"}
         => (req[r].pc = "failed" /\ ~req[r].aiCalled)

\* C9 witness: the sampler resolved with no frame and the call failed
C9_Witness ==
  \E r \in Requests :
    /\ req[r].sampler = "empty"
    /\ req[r].pc = "failed"
    /\ ~req[r].aiCalled

\* C10 (as claimed): for a call of analyzeVideo that ended in ERROR,
\* cacheAnalysis is never called.
C10_FailedNeverWrites ==
  \A r \in Requests :
    req[r].pc = "failed" => req[r].cb \in {"none", "registered"}

\* C11 (as claimed): a call of analyzeVideo that missed the cache and has
\* reached SUCCESS has had its cache write performed or abandoned, that is,
\* cacheAnalysis has been called and has returned.
C11_CachingBeforeDone ==
  \A r \in Requests :
    (req[r].pc = "done" /\ req[r].aiCalled) => req[r].cb = "done"

\* C12 (as claimed): whenever the status is ERROR, analysisResult and
\* structuredAnalysis are both null.
C12_AllOrNothing ==
  appStatus = "ERROR" => (analysisResult = Null /\ structuredAnalysis = Null)

\* C13 (as claimed): at most one call of analyzeVideo is in flight at any
\* time: while one has not ended, no file input, drop or button starts
\* another.
C13_OneInFlight ==
  Cardinality(InFlight) <= 1

\* the indices of a capture function whose capture was pushed, ascending
Captured(capture) ==
  SelectSeq([i \in 1..Len(capture) |-> i], LAMBDA i : capture[i] = "ok")

\* C14 (as claimed): whenever extractFrames resolves, the array it resolves
\* with holds at least one frame.
C14_SuccessNeverEmpty ==
  (last.op = "extractFrames" /\ last.result.settled = "resolved")
    => last.result.frames # <<>>

\* C15 (as claimed): when the metadata load with a finite positive duration,
\* no media event interrupts the seeks and the capture at some timestamp
\* fails, extractFrames resolves with the frames of the timestamps whose
\* capture succeeded, all of them, in ascending order.
C15_FrameFailureSkipped ==
  (/\ last.op = "extractFrames"
   /\ last.loaded
   /\ last.duration.finite
   /\ last.duration.secs > 0
   /\ last.event.kind = "none"
   /\ \E i \in 1..last.numFrames : last.capture[i] # "ok")
    => /\ last.result.settled = "resolved"
       /\ last.result.frames = Captured(last.capture)

\* C16 (as claimed): two calls of generateVideoHash with equal name, size
\* and lastModified return equal digests, whichever branch each takes.
C16_HashDeterminism ==
  (last.op = "hash" /\ last.file1 = last.file2) => last.digest1 = last.digest2

C18_SweepExpired ==
  (last.op = "clearExpired" /\ ~last.threw)
    => /\ StoreEntries(ls.item)
            = SelectSeq(StoreEntries(last.before),
                        LAMBDA e : ~(DateParse(e.expiresAt) < now))
       /\ last.result = Len(StoreEntries(last.before)) - Len(StoreEntries(ls.item))
       /\ last.result = 0 => ls.item = last.before

\* C18 witness: the sweep removed an entry and kept one that expires at
\* this very instant
C18_Witness ==
  /\ last.op = "clearExpired"
  /\ last.result = 1
  /\ Len(StoreEntries(ls.item)) = 1
  /\ DateParse(StoreEntries(ls.item)[1].expiresAt) = now

\* C19: removeCachedVideo(fileName, fileSize) returns true iff the store
\* held an entry with that name and size; afterwards no such entry is
\* left and the other entries are as they were, in their order; when it
\* returns false the stored text is as it was.
C19_RemoveByNameAndSize ==
  (last.op = "remove" /\ ~last.threw)
    => /\ last.result
            = (\E i \in 1..Len(StoreEntries(last.before)) :
                 /\ StoreEntries(last.before)[i].videoFileName = last.file.name
                 /\ StoreEntries(last.before)[i].videoSize = last.file.size)
       /\ StoreEntries(ls.item)
            = SelectSeq(StoreEntries(last.before),
                        LAMBDA e : ~(/\ e.videoFileName = last.file.name
                                     /\ e.videoSize = last.file.size))
       /\ ~last.result => ls.item = last.before

\* C19 witness: one of two entries was removed by its name and size
C19_Witness ==
  /\ last.op = "remove"
  /\ last.result = TRUE
  /\ Len(StoreEntries(last.before)) = 2
  /\ Len(StoreEntries(ls.item)) = 1

\* C21: a source frame whose longer side is at most maxSize keeps its size,
\* and no frame comes out wider or higher than its source.
C21_NoUpscaling ==
  last.op = "resize" =>
    /\ (last.width <= last.maxSize /\ last.height <= last.maxSize)
         => last.result = [width |-> last.width, height |-> last.height]
    /\ last.result.width <= last.width
    /\ last.result.height <= last.height

\* a frame smaller than maxSize on both sides has been sized, and so has one
\* that is larger
C21_Witness ==
  /\ last.op = "resize"
  /\ last.width = MaxSize - 1 /\ last.height = MaxSize - 2
  /\ last.result = [width |-> MaxSize - 1, height |-> MaxSize - 2]

\* C24 (as claimed): a source frame with a side longer than maxSize comes
\* out with its long side equal to maxSize and with
\* round(width / height * outputHeight) within one pixel of outputWidth.
C24_DownscaleAspect ==
  (last.op = "resize" /\ last.width >= 1 /\ last.height >= 1
     /\ (last.width > last.maxSize \/ last.height > last.maxSize)) =>
    /\ IF last.width > last.height THEN last.result.width = last.maxSize
                                   ELSE last.result.height = last.maxSize
    /\ Abs(Round(last.width * last.result.height, last.height)
             - last.result.width) <= 1

\* C24 (amended): such a frame comes out with its long side equal to maxSize
\* and its short side the nearest integer to maxSize * short / long, at most
\* half a pixel from the exact value; for a frame at least as high as wide
\* round(width / height * outputHeight) is outputWidth.
C24_DownscaleShortSide ==
  (last.op = "resize" /\ last.width >= 1 /\ last.height >= 1
     /\ (last.width > last.maxSize \/ last.height > last.maxSize)) =>
    IF last.width > last.height
      THEN /\ last.result.width = last.maxSize
           /\ 2 * Abs(last.result.height * last.width
                        - last.maxSize * last.height) <= last.width
      ELSE /\ last.result.height = last.maxSize
           /\ 2 * Abs(last.result.width * last.height
                        - last.maxSize * last.width) <= last.height
           /\ Round(last.width * last.result.height, last.height)
                = last.result.width

\* a wide frame whose short side had to be rounded up has been sized
C24_Witness ==
  /\ last.op = "resize"
  /\ last.width = 2 * MaxSize + 2 /\ last.height = 2 * MaxSize - 1
  /\ last.result.width = MaxSize
  /\ last.result.height * last.width > MaxSize * last.height

\* the timestamps of the last call are strictly increasing
StrictlyIncreasing(ts) ==
  \A i, j \in DOMAIN ts : i < j => ts[i] < ts[j]

\* the i-th timestamp is min(i * D / (N + 1), D - 0.1), in the units of
\* Timestamps
FollowsFormula(ts, duration, count) ==
  /\ DOMAIN ts = 1..count
  /\ \A i \in 1..count :
       /\ ts[i] <= i * duration
       /\ ts[i] <= (duration - EndMargin) * (count + 1)
       /\ ts[i] = i * duration \/ ts[i] = (duration - EndMargin) * (count + 1)

\* C23 (as claimed): for every finite duration D > 0 and frame count N >= 1
\* the i-th timestamp is min(i * D / (N + 1), D - 0.1) and the N timestamps
\* are strictly increasing.
C23_SamplingCoverage ==
  last.op = "timestamps" =>
    /\ FollowsFormula(last.result, last.duration, last.count)
    /\ StrictlyIncreasing(last.result)

\* C23 (amended): the i-th timestamp is min(i * D / (N + 1), D - 0.1); the
\* timestamps never decrease, and they are strictly increasing exactly when
\* N = 1 or D > 0.05 * (N + 1) seconds.
C23_SamplingCoverageLongEnough ==
  last.op = "timestamps" =>
    /\ FollowsFormula(last.result, last.duration, last.count)
    /\ \A i, j \in 1..last.count : i < j => last.result[i] <= last.result[j]
    /\ StrictlyIncreasing(last.result)
         <=> (last.count = 1 \/ 2 * last.duration > EndMargin * (last.count + 1))

\* three timestamps of a video of 0.3 s: the last one is held back by the
\* margin and still follows the second
C23_Witness ==
  /\ last.op = "timestamps"
  /\ last.count = 3 /\ last.duration = 3
  /\ last.result[3] < 3 * last.duration
  /\ last.result[2] < last.result[3]

\* C25: without a pinned frame count the count is at least 1, one of 5, 8,
\* 10, 12, 15, never smaller for a longer video, and 10 for a video of
\* 125 s; a pinned positive count is the count used.
C25_AdaptiveFrameCount ==
  last.op = "frameCount" =>
    /\ last.numFrames = 0 =>
         /\ last.countShorter >= 1
         /\ last.countShorter \in {5, 8, 10, 12, 15}
         /\ last.countShorter <= last.countLonger
         /\ last.shorter = 125 => last.countShorter = 10
    /\ last.numFrames > 0 =>
         /\ last.countShorter = last.numFrames
         /\ last.countLonger = last.numFrames

\* the counts of a video of 125 s and of one of 181 s, no count pinned
C25_Witness ==
  /\ last.op = "frameCount"
  /\ last.numFrames = 0
  /\ last.shorter = 125 /\ last.countShorter = 10
  /\ last.longer = 181 /\ last.countLonger = 12

\* C22: at most one seek is outstanding at any time, and the seek to a
\* timestamp is started only when the seeks to all earlier timestamps have
\* completed and their captures have finished or failed.
C22_SequentialCapture ==
  /\ Cardinality(video.seeking) <= 1
  /\ \A j \in video.issued :
       \A i \in 1..(j - 1) : i \in video.handled /\ i \notin video.seeking

\* the seek to the third timestamp is outstanding
C22_Witness ==
  /\ video.phase = "capturing"
  /\ video.seeking = {3}
  /\ video.handled = {1, 2}

\* C26 (as claimed): once the promise of extractFrames has resolved, the
\* sequence it resolved with is not modified and no further seek is started,
\* also when the ended event resolved it early.
C26_ResultFinal ==
  video.promise = "resolved" =>
    /\ Len(video.frames) = video.delivered
    /\ ~video.seeksAfterSettled

\* C27 (as claimed): when a write fails for capacity and the single retry
\* then succeeds, the store afterwards holds no entry whose cachedAt is more
\* than 7 days in the past.
C27_EvictionSticks ==
  (last.op = "put" /\ last.save.full /\ last.save.retries = 1 /\ last.save.saved)
    => \A i \in 1..Len(StoreEntries(ls.item)) :
         DateParse(StoreEntries(ls.item)[i].cachedAt)
           >= now - PRESSURE_KEEP_DAYS * DayMs

\* every entry of a stored item expires 30 days after it was cached
ThirtyDayEntries(item) ==
  \A i \in 1..Len(StoreEntries(item)) :
    DateParse(StoreEntries(item)[i].expiresAt)
      = DateParse(StoreEntries(item)[i].cachedAt) + CACHE_DURATION_DAYS * DayMs

\* C30: on a store whose entries all expire 30 days after they were cached,
\* clearOldCache(30) and clearExpiredCache, run at the same instant, leave
\* the same entries and return the same count.
C30_SweepEquivalence ==
  (last.op = "sweeps" /\ ThirtyDayEntries(last.before)) =>
    /\ last.older.item = ls.item
    /\ last.older.count = last.result
    /\ last.older.threw = last.threw

\* both sweeps ran on a store of two entries, one cached exactly 30 days
\* before and one older: both removed the older one and kept the other
C30_Witness ==
  /\ last.op = "sweeps"
  /\ Len(StoreEntries(last.before)) = 2
  /\ last.result = 1 /\ last.older.count = 1
  /\ Len(StoreEntries(ls.item)) = 1
  /\ DateParse(StoreEntries(ls.item)[1].cachedAt) = now - CACHE_DURATION_DAYS * DayMs

\* the hash cacheAnalysis computes for the file of call r
HashOf(r) == generateVideoHash(req[r].file, subtle)

\* C28: when a cacheAnalysis call that runs while others are pending stores
\* its array, the store holds exactly one entry for its identity, that entry
\* carries the call's own analysis, and the entry of every other identity is
\* as it was: no write of another call is lost, and for one identity the
\* last writer's entry remains.
C28_NoLostUpdate ==
  [][\A r \in Requests :
       (req[r].cb = "hashing" /\ req'[r].cb = "done" /\ req'[r].wrote) =>
         /\ CountHash(ls'.item, HashOf(r)) = 1
         /\ StoredEntry(ls'.item, HashOf(r)).analysis
              = StringifyAnalysis(req[r].analysis)
         /\ \A file \in Files :
              generateVideoHash(file, subtle) # HashOf(r) =>
                StoredEntry(ls'.item, generateVideoHash(file, subtle))
                  = StoredEntry(ls.item, generateVideoHash(file, subtle))]_vars

\* two cacheAnalysis calls for different files awaited their hashes at the
\* same time, both have stored, and both entries are in the store
C28_Witness ==
  \E r1, r2 \in Requests :
    /\ r1 # r2
    /\ req[r1].cb = "done" /\ req[r1].wrote
    /\ req[r2].cb = "done" /\ req[r2].wrote /\ req[r2].overlapped
    /\ HashOf(r1) # HashOf(r2)
    /\ StoredEntry(ls.item, HashOf(r1)) # Null
    /\ StoredEntry(ls.item, HashOf(r2)) # Null

\* C29: every analyzeVideo call that has set LOADING ends with SUCCESS or
\* with ERROR, whether it finds its file in the cache or not, and the
\* promise of a started extractFrames call is settled in the end.
C29_EveryRequestTerminates ==
  /\ \A r \in 1..MaxRequests :
       (req[r].pc \in {"hashing", "sampling", "requesting", "thumbnail"})
         ~> (req[r].pc \in {"done", "failed"})
  /\ (video.phase = "loading") ~> (video.promise # "pending")

\* a call that found its file in the cache has ended with SUCCESS, and a
\* sampler run has resolved
C29_Witness ==
  /\ \E r \in Requests : req[r].pc = "done" /\ req[r].hadLive
  /\ appStatus = "SUCCESS"
  /\ video.promise = "resolved"
====
